---- MODULE Spec2Model ----
(***************************************************************************)
(* A model of configurator.py: the Config store (load / save with the      *)
(* reversible value transform) and the Configurator edit session           *)
(* (on_load, compose, the three button handlers), plus the file-name       *)
(* validator.                                                              *)
(*                                                                         *)
(* Python str values (row values, file names, YAML scalar texts) are       *)
(* sequences of one-character strings, so that slicing, reversal, the      *)
(* regular expression and os.path.dirname are computed, not assumed.       *)
(* Dictionary keys are TLA+ strings: the program only compares them.       *)
(***************************************************************************)
EXTENDS Integers, Sequences, FiniteSets, TLC

VARIABLES
    state,        \* "Start" | "Editing" | "Terminated" | "LoadFailed" | "Crashed"
    config,       \* self.config : the Config held by the app
    keys,         \* self.keys   : the displayed key order
    rows,         \* the mounted Row widgets, each (k.value, v.value)
    fn,           \* the value of the #config_filename Input
    disk,         \* the files the program can open, path -> content
    lastOp,       \* the handler that ran last
    outcome,      \* how it ended: "ok" | "LoadError" | "SaveError"
    signal,       \* what self.notify showed during it: "none" | "Saved"
    sentinelSeen, \* history: the rows the last reconcile read held a sentinel row
    arg,          \* harness for the pure functions: the input
    mid,          \* harness: the intermediate value (obscured string, written file, directories)
    res,          \* harness: the result
    step          \* harness: position

vars == <<state, config, keys, rows, fn, disk, lastOp, outcome, signal,
          sentinelSeen, arg, mid, res, step>>
sessionVars == <<state, config, keys, rows, fn, disk, lastOp, outcome, signal, sentinelSeen>>
harnessVars == <<arg, mid, res, step>>

----------------------------------------------------------------------------
(* Bounds *)

\* Rows the session may display at once.
MaxRows == 2
\* Length of the strings the transform and the validator are tried on.
MaxLen == 3

----------------------------------------------------------------------------
(* Strings *)

S_empty == << >>
S_hello == <<"h", "e", "l", "l", "o">>
S_olleh == <<"o", "l", "l", "e", "h">>
\* 'config.yaml'
DefaultPath == <<"c", "o", "n", "f", "i", "g", ".", "y", "a", "m", "l">>
\* a file inside a directory that exists
AltPath == <<"d", "/", "o">>
\* 'bad/name': the directory bad does not exist
BadPath == <<"b", "a", "d", "/", "n", "a", "m", "e">>
SENTINEL == "new_key"

\* value[::-1]
Reversed(s) == [i \in 1..Len(s) |-> s[Len(s) + 1 - i]]

----------------------------------------------------------------------------
(* Python values *)

PyStr(s) == [type |-> "str", s |-> s]
PyInt(n) == [type |-> "int", n |-> n]
PyBool(b) == [type |-> "bool", b |-> b]
PyNone == [type |-> "NoneType"]
PyList(xs) == [type |-> "list", xs |-> xs]
PyDict(d) == [type |-> "dict", d |-> d]
IsStr(v) == v.type = "str"

(* A dict is the sequence of its items in insertion order, keys unique. *)
Item(k, v) == [k |-> k, v |-> v]
DictKeys(d) == [i \in 1..Len(d) |-> d[i].k]
DictHas(d, k) == \E i \in 1..Len(d) : d[i].k = k
DictSetItem(d, k, v) ==
    IF DictHas(d, k)
    THEN [i \in 1..Len(d) |-> IF d[i].k = k THEN Item(k, v) ELSE d[i]]
    ELSE Append(d, Item(k, v))
DictGet(d, k, default) ==
    IF DictHas(d, k) THEN (CHOOSE it \in {d[i] : i \in 1..Len(d)} : it.k = k).v ELSE default
\* dict.update(other) / a dict built from a sequence of items: one insertion each, in order
RECURSIVE DictUpdate(_, _)
DictUpdate(d, its) ==
    IF its = << >> THEN d
    ELSE DictUpdate(DictSetItem(d, Head(its).k, Head(its).v), Tail(its))

----------------------------------------------------------------------------
(* Config *)

\* re.sub(r'\s+', '_', key): of the keys modelled only "a b" holds whitespace
AttrName(key) == IF key = "a b" THEN "a_b" ELSE key

\* Config(): an empty dict with no instance attribute set
Config_init == [d |-> << >>, attrs |-> {}]

\* Config.__setitem__
Config_setitem(cfg, key, value) ==
    [d |-> DictSetItem(cfg.d, key, value), attrs |-> cfg.attrs \cup {AttrName(key)}]

\* dict.update on the subclass: inserts without calling __setitem__
Config_update(cfg, its) == [cfg EXCEPT !.d = DictUpdate(cfg.d, its)]

\* a method looked up on the instance is callable unless an attribute of that name shadows it
Callable(cfg, method) == method \notin cfg.attrs

\* the slice written value[::1]: the string as it is
MangleForward(value) == value

_mangle(value) == Reversed(value)

_unmangle(value) == Reversed(value)

----------------------------------------------------------------------------
(* YAML: yaml.dump and yaml.safe_load.  A node is a tagged scalar with its  *)
(* text, a sequence of nodes or a mapping of keys to nodes.                 *)

Digits == <<"0", "1", "2", "3", "4", "5", "6", "7", "8", "9">>
IntText(n) == <<Digits[n + 1]>>
ParseInt(text) == (CHOOSE i \in 1..10 : Digits[i] = text[1]) - 1
T_true == <<"t", "r", "u", "e">>
T_false == <<"f", "a", "l", "s", "e">>
T_null == <<"n", "u", "l", "l">>

\* the code-point order of the keys modelled, for yaml.dump's sort_keys=True
KeyRank(k) ==
    CASE k = "_unmangle" -> 1
      [] k = "a" -> 2
      [] k = "a b" -> 3
      [] k = "b" -> 4
      [] k = "new_key" -> 5
      [] OTHER -> 6

RECURSIVE SortedItems(_)
SortedItems(d) ==
    IF d = << >> THEN << >>
    ELSE LET m == CHOOSE i \in 1..Len(d) : \A j \in 1..Len(d) : KeyRank(d[i].k) <= KeyRank(d[j].k)
             rest == [j \in 1..(Len(d) - 1) |-> IF j < m THEN d[j] ELSE d[j + 1]]
         IN  <<d[m]>> \o SortedItems(rest)

RECURSIVE YamlRepresent(_)
YamlRepresent(v) ==
    CASE v.type = "str" -> [tag |-> "str", text |-> v.s]
      [] v.type = "int" -> [tag |-> "int", text |-> IntText(v.n)]
      [] v.type = "bool" -> [tag |-> "bool", text |-> IF v.b THEN T_true ELSE T_false]
      [] v.type = "NoneType" -> [tag |-> "null", text |-> T_null]
      [] v.type = "list" ->
            [tag |-> "seq", elems |-> [i \in 1..Len(v.xs) |-> YamlRepresent(v.xs[i])]]
      [] v.type = "dict" ->
            LET its == SortedItems(v.d)
            IN  [tag |-> "map",
                 pairs |-> [i \in 1..Len(its) |->
                               [key |-> its[i].k, node |-> YamlRepresent(its[i].v)]]]

RECURSIVE YamlConstruct(_)
YamlConstruct(n) ==
    CASE n.tag = "str" -> PyStr(n.text)
      [] n.tag = "int" -> PyInt(ParseInt(n.text))
      [] n.tag = "bool" -> PyBool(n.text = T_true)
      [] n.tag = "null" -> PyNone
      [] n.tag = "seq" -> PyList([i \in 1..Len(n.elems) |-> YamlConstruct(n.elems[i])])
      [] n.tag = "map" ->
            PyDict(DictUpdate(<< >>, [i \in 1..Len(n.pairs) |->
                                        Item(n.pairs[i].key, YamlConstruct(n.pairs[i].node))]))

\* yaml.dump({key: value}, file): one block of the file
YamlDump(key, value) == [key |-> key, node |-> YamlRepresent(value)]

\* yaml.safe_load(file): None for a file with no block, else the top-level dict
YamlSafeLoad(blocks) ==
    IF blocks = << >> THEN PyNone
    ELSE PyDict(DictUpdate(<< >>, [i \in 1..Len(blocks) |->
                                     Item(blocks[i].key, YamlConstruct(blocks[i].node))]))

----------------------------------------------------------------------------
(* Files *)

Absent == [exists |-> FALSE, blocks |-> << >>]
File(blocks) == [exists |-> TRUE, blocks |-> blocks]

\* the directories that exist besides the current one; the program creates none
ExistingDirs == {<<"d">>}

LastSlash(p) ==
    IF \E i \in 1..Len(p) : p[i] = "/"
    THEN CHOOSE i \in 1..Len(p) : p[i] = "/" /\ \A j \in (i + 1)..Len(p) : p[j] # "/"
    ELSE 0

RECURSIVE RStripSlashes(_)
RStripSlashes(p) ==
    IF p # << >> /\ p[Len(p)] = "/" THEN RStripSlashes(SubSeq(p, 1, Len(p) - 1)) ELSE p

\* os.path.dirname
Dirname(p) ==
    LET head == SubSeq(p, 1, LastSlash(p))
    IN  IF head # << >> /\ \E i \in 1..Len(head) : head[i] # "/"
        THEN RStripSlashes(head) ELSE head

\* os.path.exists against the directories dirs: the empty path never exists
PathExists(p, dirs) == p # << >> /\ p \in dirs

\* open(path, 'w') / open(path, 'r') resolve a relative name against the current directory
CanOpenForWrite(path, d) ==
    /\ path \in DOMAIN d
    /\ Dirname(path) = << >> \/ Dirname(path) \in ExistingDirs
CanOpenForRead(path, d) == path \in DOMAIN d /\ d[path].exists

----------------------------------------------------------------------------
(* Config.save and Config.load *)

\* the value save hands to yaml.dump for an item
SavedValue(value) == IF IsStr(value) THEN PyStr(_mangle(value.s)) ELSE value

\* the blocks a completed save writes, in the store's iteration order
SaveBlocks(cfg) == [i \in 1..Len(cfg.d) |-> YamlDump(cfg.d[i].k, SavedValue(cfg.d[i].v))]

\* the I/O faults a save may meet: -1 none, 0 open raises, n the n-th dump raises
Faults(cfg) == (-1)..Len(cfg.d)

\* Config.save(path) against disk d under fault: whether it raised, and the disk after
Config_save(cfg, path, d, fault) ==
    IF ~CanOpenForWrite(path, d) \/ fault = 0
    THEN [raised |-> TRUE, disk |-> d]
    ELSE IF ~Callable(cfg, "items") \/ (\E i \in 1..Len(cfg.d) : IsStr(cfg.d[i].v) /\ ~Callable(cfg, "_mangle"))
    THEN [raised |-> TRUE, disk |-> [d EXCEPT ![path] = File(<< >>)]]
    ELSE IF fault >= 1
    THEN [raised |-> TRUE, disk |-> [d EXCEPT ![path] = File(SubSeq(SaveBlocks(cfg), 1, fault - 1))]]
    ELSE [raised |-> FALSE, disk |-> [d EXCEPT ![path] = File(SaveBlocks(cfg))]]

\* the loop of Config.load over data.items(): raises when _unmangle is shadowed
RECURSIVE LoadItems(_, _)
LoadItems(cfg, its) ==
    IF its = << >> THEN [raised |-> FALSE, cfg |-> cfg]
    ELSE LET it == Head(its)
         IN  IF IsStr(it.v)
             THEN IF Callable(cfg, "_unmangle")
                  THEN LoadItems(Config_setitem(cfg, it.k, PyStr(_unmangle(it.v.s))), Tail(its))
                  ELSE [raised |-> TRUE, cfg |-> cfg]
             ELSE LoadItems(Config_setitem(cfg, it.k, it.v), Tail(its))

\* Config.load(path) against disk d
Config_load(path, d) ==
    IF ~CanOpenForRead(path, d) THEN [raised |-> TRUE, cfg |-> Config_init]
    ELSE LET data == YamlSafeLoad(d[path].blocks)
         IN  IF data.type # "dict" THEN [raised |-> TRUE, cfg |-> Config_init]
             ELSE LoadItems(Config_init, data.d)

----------------------------------------------------------------------------
(* The file-name validator *)

\* the characters \w matches among those modelled
WordChars == {"a", "b", "c", "d", "e", "f", "g", "h", "i", "l", "m", "n", "o", "y",
              "0", "1", "_"}

\* re.match(r'^[\w\-. ]+$', fn) is not None; $ also matches before one final newline
RegexMatch(name) ==
    LET body == IF name # << >> /\ name[Len(name)] = "\n"
                THEN SubSeq(name, 1, Len(name) - 1) ELSE name
    IN  /\ body # << >>
        /\ \A i \in 1..Len(body) : body[i] \in WordChars \cup {"-", ".", " "}

\* GoodFileNameValidator.validate, nested is_valid_filename, against the directories dirs
is_valid_filename(name, dirs) ==
    IF ~RegexMatch(name) THEN FALSE ELSE PathExists(Dirname(name), dirs)

validate(value, dirs) == IF is_valid_filename(value, dirs) THEN "success" ELSE "failure"

----------------------------------------------------------------------------
(* The session: Configurator *)

Keys == {"a", "b", SENTINEL}
EditValues == {S_empty, S_hello}
FileNames == {DefaultPath, BadPath}
Files == {DefaultPath}

\* the files config.yaml may hold when the program is first started
InitFiles ==
    { Absent,
      File(<< >>),
      File(<<YamlDump("a", PyStr(S_empty))>>),
      File(<<YamlDump("b", PyStr(S_olleh)), YamlDump("a", PyStr(S_empty))>>),
      File(<<YamlDump(SENTINEL, PyStr(S_olleh))>>) }

Row(k, v) == [k |-> k, v |-> v]

\* compose: one Row per displayed key with config.get(key, ''); the files modelled hold
\* str values only
compose(cfg, ks) == [i \in 1..Len(ks) |-> Row(ks[i], DictGet(cfg.d, ks[i], PyStr(S_empty)).s)]

\* the comprehension without its "if not row.k.value == 'new_key'" filter
RowItemsUnfiltered(rws) ==
    DictUpdate(<< >>, [i \in 1..Len(rws) |-> Item(rws[i].k, PyStr(rws[i].v))])

\* the dict comprehension of on_save_button_pressed: the rows whose key is not 'new_key'
RowItems(rws) ==
    LET kept == SelectSeq(rws, LAMBDA r : ~(r.k = SENTINEL))
    IN  DictUpdate(<< >>, [i \in 1..Len(kept) |-> Item(kept[i].k, PyStr(kept[i].v))])

\* on_save_button_pressed(notify) on the rows rws with the file name path, under an I/O
\* fault: the attributes it leaves on the app, the disk, and whether save raised
on_save_button_pressed(rws, path, d, notify, fault) ==
    LET cfg == Config_update(Config_init, RowItems(rws))
        sv == Config_save(cfg, path, d, fault)
    IN  [config |-> cfg,
         keys |-> DictKeys(cfg.d),
         disk |-> sv.disk,
         raised |-> sv.raised,
         signal |-> IF ~sv.raised /\ notify THEN "Saved" ELSE "none"]

HasSentinelRow(rws) == \E i \in 1..Len(rws) : rws[i].k = SENTINEL

\* an exception leaving a handler: the framework reports it and either goes on or stops
AfterError == {"Editing", "Crashed"}

SessionStart(d) ==
    /\ state = "Start"
    /\ config = Config_init
    /\ keys = << >>
    /\ rows = << >>
    /\ fn = DefaultPath
    /\ disk = d
    /\ lastOp = "none"
    /\ outcome = "ok"
    /\ signal = "none"
    /\ sentinelSeen = FALSE

HarnessIdle ==
    /\ arg = << >>
    /\ mid = << >>
    /\ res = << >>
    /\ step = "idle"

Init ==
    /\ \E f \in InitFiles : SessionStart([p \in Files |-> IF p = DefaultPath THEN f ELSE Absent])
    /\ HarnessIdle

\* on_load, then the first compose
on_load ==
    /\ state = "Start"
    /\ LET r == Config_load(DefaultPath, disk)
       IN  IF r.raised \/ ~Callable(r.cfg, "keys") \/ (r.cfg.d # << >> /\ ~Callable(r.cfg, "get"))
           THEN /\ state' = "LoadFailed"
                /\ outcome' = "LoadError"
                /\ UNCHANGED <<config, keys, rows>>
           ELSE /\ state' = "Editing"
                /\ outcome' = "ok"
                /\ config' = r.cfg
                /\ keys' = DictKeys(r.cfg.d)
                /\ rows' = compose(r.cfg, DictKeys(r.cfg.d))
    /\ lastOp' = "load"
    /\ UNCHANGED <<fn, disk, signal, sentinelSeen, harnessVars>>

\* the user types into the key Input of a row
EditKey ==
    /\ state = "Editing"
    /\ \E i \in 1..Len(rows), k \in Keys : rows' = [rows EXCEPT ![i].k = k]
    /\ lastOp' = "edit"
    /\ outcome' = "ok"
    /\ signal' = "none"
    /\ UNCHANGED <<state, config, keys, fn, disk, sentinelSeen, harnessVars>>

\* the user types into the value Input of a row
EditValue ==
    /\ state = "Editing"
    /\ \E i \in 1..Len(rows), v \in EditValues : rows' = [rows EXCEPT ![i].v = v]
    /\ lastOp' = "edit"
    /\ outcome' = "ok"
    /\ signal' = "none"
    /\ UNCHANGED <<state, config, keys, fn, disk, sentinelSeen, harnessVars>>

\* the user types into the #config_filename Input
EditFileName ==
    /\ state = "Editing"
    /\ \E p \in FileNames : fn' = p
    /\ lastOp' = "edit"
    /\ outcome' = "ok"
    /\ signal' = "none"
    /\ UNCHANGED <<state, config, keys, rows, disk, sentinelSeen, harnessVars>>

\* the Save button: on_save_button_pressed(message) with notify defaulted to True
PressSave ==
    /\ state = "Editing"
    /\ \E fault \in Faults(Config_update(Config_init, RowItems(rows))) :
          LET r == on_save_button_pressed(rows, fn, disk, TRUE, fault)
          IN  /\ config' = r.config
              /\ keys' = r.keys
              /\ disk' = r.disk
              /\ signal' = r.signal
              /\ outcome' = IF r.raised THEN "SaveError" ELSE "ok"
              /\ IF r.raised THEN state' \in AfterError ELSE state' = "Editing"
    /\ lastOp' = "save"
    /\ sentinelSeen' = HasSentinelRow(rows)
    /\ UNCHANGED <<rows, fn, harnessVars>>

\* exit without saving: the handler with its first line lost
QuitWithoutSave ==
    /\ state = "Editing"
    /\ state' = "Terminated"
    /\ lastOp' = "quit"
    /\ outcome' = "ok"
    /\ signal' = "none"
    /\ UNCHANGED <<config, keys, rows, fn, disk, sentinelSeen, harnessVars>>

\* the handler calling on_save_button_pressed without notify=False
QuitNotifying ==
    /\ state = "Editing"
    /\ \E fault \in Faults(Config_update(Config_init, RowItems(rows))) :
          LET r == on_save_button_pressed(rows, fn, disk, TRUE, fault)
          IN  /\ config' = r.config
              /\ keys' = r.keys
              /\ disk' = r.disk
              /\ signal' = r.signal
              /\ outcome' = IF r.raised THEN "SaveError" ELSE "ok"
              /\ IF r.raised THEN state' \in AfterError ELSE state' = "Terminated"
    /\ lastOp' = "quit"
    /\ sentinelSeen' = HasSentinelRow(rows)
    /\ UNCHANGED <<rows, fn, harnessVars>>

\* on_quit_button_pressed: save silently, then self.exit(); exit is not reached when
\* save raises
on_quit_button_pressed ==
    /\ state = "Editing"
    /\ \E fault \in Faults(Config_update(Config_init, RowItems(rows))) :
          LET r == on_save_button_pressed(rows, fn, disk, FALSE, fault)
          IN  /\ config' = r.config
              /\ keys' = r.keys
              /\ disk' = r.disk
              /\ signal' = r.signal
              /\ outcome' = IF r.raised THEN "SaveError" ELSE "ok"
              /\ IF r.raised THEN state' \in AfterError ELSE state' = "Terminated"
    /\ lastOp' = "quit"
    /\ sentinelSeen' = HasSentinelRow(rows)
    /\ UNCHANGED <<rows, fn, harnessVars>>

\* the handler appending the sentinel before it saves
AddRowAppendFirst ==
    /\ state = "Editing"
    /\ Len(RowItems(rows)) < MaxRows
    /\ \E fault \in Faults(Config_update(Config_init, RowItems(rows))) :
          LET r == on_save_button_pressed(rows, fn, disk, FALSE, fault)
          IN  /\ config' = r.config
              /\ disk' = r.disk
              /\ signal' = r.signal
              /\ outcome' = IF r.raised THEN "SaveError" ELSE "ok"
              /\ keys' = r.keys
              /\ IF r.raised
                 THEN state' \in AfterError /\ UNCHANGED <<rows, fn>>
                 ELSE /\ state' = "Editing"
                      /\ rows' = compose(r.config, r.keys)
                      /\ fn' = DefaultPath
    /\ lastOp' = "add"
    /\ sentinelSeen' = HasSentinelRow(rows)
    /\ UNCHANGED harnessVars

\* the handler appending the sentinel without the save before it
AddRowWithoutSave ==
    /\ state = "Editing"
    /\ Len(keys) < MaxRows + 1
    /\ keys' = Append(keys, SENTINEL)
    /\ rows' = compose(config, keys')
    /\ fn' = DefaultPath
    /\ lastOp' = "add"
    /\ outcome' = "ok"
    /\ signal' = "none"
    /\ sentinelSeen' = HasSentinelRow(rows)
    /\ UNCHANGED <<state, config, disk, harnessVars>>

\* on_add_row_button_pressed: save silently, append 'new_key' to self.keys, recompose
\* (compose builds the Rows and a fresh file-name Input holding 'config.yaml'); neither
\* the append nor the recompose is reached when save raises
on_add_row_button_pressed ==
    /\ state = "Editing"
    /\ Len(RowItems(rows)) < MaxRows
    /\ \E fault \in Faults(Config_update(Config_init, RowItems(rows))) :
          LET r == on_save_button_pressed(rows, fn, disk, FALSE, fault)
          IN  /\ config' = r.config
              /\ disk' = r.disk
              /\ signal' = r.signal
              /\ outcome' = IF r.raised THEN "SaveError" ELSE "ok"
              /\ IF r.raised
                 THEN /\ state' \in AfterError
                      /\ keys' = r.keys
                      /\ UNCHANGED <<rows, fn>>
                 ELSE /\ state' = "Editing"
                      /\ keys' = Append(r.keys, SENTINEL)
                      /\ rows' = compose(r.config, Append(r.keys, SENTINEL))
                      /\ fn' = DefaultPath
    /\ lastOp' = "add"
    /\ sentinelSeen' = HasSentinelRow(rows)
    /\ UNCHANGED harnessVars

\* app = Configurator(); app.run(): the program is started again on the same disk
run ==
    /\ state \in {"Terminated", "Crashed"}
    /\ state' = "Start"
    /\ config' = Config_init
    /\ keys' = << >>
    /\ rows' = << >>
    /\ fn' = DefaultPath
    /\ lastOp' = "none"
    /\ outcome' = "ok"
    /\ signal' = "none"
    /\ sentinelSeen' = FALSE
    /\ UNCHANGED <<disk, harnessVars>>

Next ==
    \/ on_load
    \/ EditKey
    \/ EditValue
    \/ EditFileName
    \/ PressSave
    \/ on_quit_button_pressed
    \/ on_add_row_button_pressed
    \/ run

Spec == Init /\ [][Next]_vars

----------------------------------------------------------------------------
(* The value transform on its own *)

Alphabet == {"a", "b", "c"}
StringsUpTo(n, chars) == UNION {[1..k -> chars] : k \in 0..n}
TransformInputs == StringsUpTo(MaxLen, Alphabet) \cup {S_hello, S_olleh}
IdleDisk == [p \in Files |-> Absent]

InitTransform ==
    /\ SessionStart(IdleDisk)
    /\ arg \in TransformInputs
    /\ mid = << >>
    /\ res = << >>
    /\ step = "input"

\* obscure: Config._mangle applied to the input
Obscure ==
    /\ step = "input"
    /\ mid' = _mangle(arg)
    /\ step' = "obscured"
    /\ UNCHANGED <<arg, res, sessionVars>>

\* reveal: Config._unmangle applied to the obscured string
Reveal ==
    /\ step = "obscured"
    /\ res' = _unmangle(mid)
    /\ step' = "revealed"
    /\ UNCHANGED <<arg, mid, sessionVars>>

\* reveal applied to the input itself
RevealInput ==
    /\ step = "input"
    /\ res' = _unmangle(arg)
    /\ step' = "unmangled"
    /\ UNCHANGED <<arg, mid, sessionVars>>

NextTransform ==
    \/ Obscure
    \/ Reveal
    \/ RevealInput

SpecTransform == InitTransform /\ [][NextTransform]_vars

----------------------------------------------------------------------------
(* Save then load of one store *)

\* Entries a store of the round trip may hold.
MaxEntries == 2
RTKeys == {"a", "a b", "_unmangle"}
RTValues ==
    { PyStr(S_hello), PyStr(S_empty), PyInt(7), PyBool(TRUE), PyNone,
      PyList(<<PyStr(S_hello), PyInt(1)>>),
      PyDict(<<Item("b", PyStr(S_hello)), Item("a", PyList(<< >>))>>) }
RTItemSeqs ==
    { its \in UNION {[1..k -> [k : RTKeys, v : RTValues]] : k \in 0..MaxEntries} :
        \A i, j \in 1..Len(its) : i # j => its[i].k # its[j].k }
\* the stores: built as the session builds its own, by update on a fresh Config
RTStores == {Config_update(Config_init, its) : its \in RTItemSeqs}

InitRoundTrip ==
    /\ SessionStart(IdleDisk)
    /\ arg \in RTStores
    /\ mid = Absent
    /\ res = [raised |-> FALSE, cfg |-> Config_init]
    /\ step = "store"

\* Config.save of the store to config.yaml, no I/O fault
SaveStore ==
    /\ step = "store"
    /\ mid' = Config_save(arg, DefaultPath, IdleDisk, -1).disk[DefaultPath]
    /\ step' = "saved"
    /\ UNCHANGED <<arg, res, sessionVars>>

\* Config.load of the file just written
LoadStore ==
    /\ step = "saved"
    /\ res' = Config_load(DefaultPath, [p \in Files |-> mid])
    /\ step' = "loaded"
    /\ UNCHANGED <<arg, mid, sessionVars>>

NextRoundTrip ==
    \/ SaveStore
    \/ LoadStore

SpecRoundTrip == InitRoundTrip /\ [][NextRoundTrip]_vars

----------------------------------------------------------------------------
(* The validator on its own *)

PathAlphabet == {"a", ".", "/", " ", "\n"}
CandidateNames == StringsUpTo(MaxLen, PathAlphabet) \cup {DefaultPath, BadPath, AltPath}
CandidateDirs == {<<"a">>, <<"d">>, <<"b", "a", "d">>}

InitValidator ==
    /\ SessionStart(IdleDisk)
    /\ arg \in CandidateNames
    /\ mid \in SUBSET CandidateDirs
    /\ res = "none"
    /\ step = "typed"

\* GoodFileNameValidator().validate(value) with the directories mid on disk
Validate ==
    /\ step = "typed"
    /\ res' = validate(arg, mid)
    /\ step' = "validated"
    /\ UNCHANGED <<arg, mid, sessionVars>>

NextValidator == Validate

SpecValidator == InitValidator /\ [][NextValidator]_vars

----------------------------------------------------------------------------
(* Properties *)

ReconcileOps == {"save", "add", "quit"}

\* t is s read backwards
IsReversal(t, s) == Len(t) = Len(s) /\ \A i \in 1..Len(s) : t[i] = s[Len(s) + 1 - i]

FirstIndex(rws, k) == CHOOSE i \in 1..Len(rws) : rws[i].k = k /\ \A j \in 1..(i - 1) : rws[j].k # k
LastIndex(rws, k) == CHOOSE i \in 1..Len(rws) : rws[i].k = k /\ \A j \in (i + 1)..Len(rws) : rws[j].k # k

\* the rows whose key is not the sentinel, as given
NonSentinelRows(rws) == SelectSeq(rws, LAMBDA r : r.k # SENTINEL)

\* the items of a dict of str values as rows
ItemsAsRows(d) == [i \in 1..Len(d) |-> Row(d[i].k, d[i].v.s)]

\* d holds one entry per distinct non-sentinel key of rws, placed by the key's first row
\* and valued by its last
ReconciledFrom(d, rws) ==
    /\ \A i, j \in 1..Len(d) : i # j => d[i].k # d[j].k
    /\ \A k \in Keys : DictHas(d, k) <=> (k # SENTINEL /\ \E i \in 1..Len(rws) : rws[i].k = k)
    /\ \A i, j \in 1..Len(d) : i < j => FirstIndex(rws, d[i].k) < FirstIndex(rws, d[j].k)
    /\ \A i \in 1..Len(d) : d[i].v = PyStr(rws[LastIndex(rws, d[i].k)].v)

\* f is the file a save of d leaves: one block per entry, in order, each str value reversed
PersistedFrom(f, d) ==
    /\ f.exists
    /\ Len(f.blocks) = Len(d)
    /\ \A i \in 1..Len(d) :
          /\ f.blocks[i].key = d[i].k
          /\ f.blocks[i].node.tag = "str"
          /\ IsReversal(f.blocks[i].node.text, d[i].v.s)

HoldsSentinel(f) == \E i \in 1..Len(f.blocks) : f.blocks[i].key = SENTINEL

\* C1, as claimed: every reconcile builds a store holding exactly the rows whose key is
\* not "new_key", in the rows' order.
C1_ExactlyTheNonSentinelRows ==
    [][(state = "Editing" /\ lastOp' \in ReconcileOps)
          => ItemsAsRows(config'.d) = NonSentinelRows(rows)]_vars

\* C1, amended: every reconcile builds a store holding one entry per distinct non-sentinel
\* key of the rows, at the position of the key's first row and with the value of its last
\* (exactly the non-sentinel rows, in order, when their keys are distinct); a save that
\* succeeds leaves exactly that store in the destination file; and a file holds the key
\* "new_key" only if it is a file the program was started on, never one it wrote.
C1_SentinelExclusion ==
    /\ [][(state = "Editing" /\ lastOp' \in ReconcileOps)
            => /\ ReconciledFrom(config'.d, rows)
               /\ ~DictHas(config'.d, SENTINEL)
               /\ (\A i, j \in 1..Len(rows) :
                      (i # j /\ rows[i].k # SENTINEL) => rows[i].k # rows[j].k)
                    => ItemsAsRows(config'.d) = NonSentinelRows(rows)
               /\ outcome' = "ok" =>
                    /\ fn \in DOMAIN disk'
                    /\ PersistedFrom(disk'[fn], config'.d)
                    /\ ~HoldsSentinel(disk'[fn])]_vars
    /\ [](\A p \in DOMAIN disk : HoldsSentinel(disk[p]) => disk[p] \in InitFiles)

\* C1 witness: a reconcile read a sentinel row beside a named one and saved the named one.
C1_Witness ==
    /\ lastOp = "save"
    /\ outcome = "ok"
    /\ rows = <<Row("a", S_hello), Row(SENTINEL, S_empty)>>
    /\ config.d = <<Item("a", PyStr(S_hello))>>
    /\ disk[DefaultPath] = File(<<[key |-> "a", node |-> [tag |-> "str", text |-> S_olleh]]>>)

\* C2: the session reaches Terminated only through a quit that reconciled the current
\* rows and saved them to the destination path, silently.
C2_QuitSaves ==
    [][(state # "Terminated" /\ state' = "Terminated")
          => /\ state = "Editing"
             /\ lastOp' = "quit"
             /\ outcome' = "ok"
             /\ signal' = "none"
             /\ ReconciledFrom(config'.d, rows)
             /\ fn \in DOMAIN disk'
             /\ PersistedFrom(disk'[fn], config'.d)
             /\ (rows = <<Row("a", S_hello)>>
                   => disk'[fn].blocks = <<[key |-> "a", node |-> [tag |-> "str", text |-> S_olleh]]>>)]_vars

\* C2 witness: quit with the single row (a, hello) left a: olleh in the destination file.
C2_Witness ==
    /\ state = "Terminated"
    /\ lastOp = "quit"
    /\ rows = <<Row("a", S_hello)>>
    /\ disk[fn] = File(<<[key |-> "a", node |-> [tag |-> "str", text |-> S_olleh]]>>)
    /\ signal = "none"

\* C5, as claimed: a reconcile whose save raises leaves the store and the displayed key
\* order as they were before the operation.
C5_FailureLeavesSessionUnchanged ==
    [][(state = "Editing" /\ lastOp' \in ReconcileOps /\ outcome' = "SaveError")
          => (config'.d = config.d /\ keys' = keys)]_vars

\* C6, as claimed: while the file name typed fails the validator, no save-triggering
\* operation writes a file.
C6_InvalidPathNotSaved ==
    [][(state = "Editing" /\ lastOp' \in ReconcileOps /\ validate(fn, ExistingDirs) = "failure")
          => disk' = disk]_vars

\* C8: an add-row that completes has reconciled and saved the visible rows silently, then
\* appended the sentinel to the displayed order only, then re-rendered: the store is the
\* reconciled one and does not hold the sentinel.
C8_AddRowOrder ==
    [][(state = "Editing" /\ lastOp' = "add" /\ outcome' = "ok")
          => /\ ReconciledFrom(config'.d, rows)
             /\ fn \in DOMAIN disk'
             /\ PersistedFrom(disk'[fn], config'.d)
             /\ signal' = "none"
             /\ ~DictHas(config'.d, SENTINEL)
             /\ keys' = Append(DictKeys(config'.d), SENTINEL)
             /\ Len(rows') = Len(keys')
             /\ \A i \in 1..Len(keys') :
                   /\ rows'[i].k = keys'[i]
                   /\ rows'[i].v = IF i <= Len(config'.d) THEN config'.d[i].v.s ELSE S_empty]_vars

\* C8 witness: an add-row completed on rows that held an edited entry.
C8_Witness ==
    /\ lastOp = "add"
    /\ outcome = "ok"
    /\ state = "Editing"
    /\ keys = <<"b", SENTINEL>>
    /\ config.d = <<Item("b", PyStr(S_hello))>>
    /\ rows = <<Row("b", S_hello), Row(SENTINEL, S_empty)>>

\* C9: the success signal is shown only by a save request whose save succeeded, with the
\* store then in the destination file; never after a failed save, by quit or by add-row.
C9_NotifyOnlyAfterSave ==
    /\ signal = "Saved" =>
          /\ lastOp = "save"
          /\ outcome = "ok"
          /\ fn \in DOMAIN disk
          /\ PersistedFrom(disk[fn], config.d)
    /\ outcome = "SaveError" => signal = "none"
    /\ lastOp \in {"quit", "add"} => signal = "none"

\* C9 witness: a save request succeeded and signalled.
C9_Witness ==
    /\ signal = "Saved"
    /\ lastOp = "save"
    /\ config.d # << >>

\* C10: while Editing, the displayed key order is the store's key order, optionally
\* followed by one sentinel; it holds at most one sentinel and no key twice.
C10_DisplayedOrder ==
    state = "Editing" =>
        /\ \/ keys = DictKeys(config.d)
           \/ keys = Append(DictKeys(config.d), SENTINEL)
        /\ Cardinality({i \in 1..Len(keys) : keys[i] = SENTINEL}) <= 1
        /\ \A i, j \in 1..Len(keys) : i # j => keys[i] # keys[j]

\* C10 witness: an add-row pressed while the earlier sentinel row was still unnamed.
C10_Witness ==
    /\ state = "Editing"
    /\ lastOp = "add"
    /\ outcome = "ok"
    /\ sentinelSeen
    /\ keys = <<"a", SENTINEL>>

\* Python's == on the values modelled: dicts compare without regard to order
RECURSIVE PyEqual(_, _)
PyEqual(x, y) ==
    /\ x.type = y.type
    /\ CASE x.type = "list" ->
              /\ Len(x.xs) = Len(y.xs)
              /\ \A i \in 1..Len(x.xs) : PyEqual(x.xs[i], y.xs[i])
         [] x.type = "dict" ->
              /\ {x.d[i].k : i \in 1..Len(x.d)} = {y.d[i].k : i \in 1..Len(y.d)}
              /\ \A i \in 1..Len(x.d), j \in 1..Len(y.d) :
                    x.d[i].k = y.d[j].k => PyEqual(x.d[i].v, y.d[j].v)
         [] OTHER -> x = y

\* C3, as claimed: loading what save wrote yields the same keys in the same order with
\* equal values, for every store.
C3_RoundTrip ==
    step = "loaded" =>
        /\ ~res.raised
        /\ DictKeys(res.cfg.d) = DictKeys(arg.d)
        /\ \A i \in 1..Len(arg.d) : PyEqual(res.cfg.d[i].v, arg.d[i].v)

\* C4: obscure and reveal each reverse the characters, and reveal undoes obscure.
C4_Involution ==
    /\ step \in {"obscured", "revealed"} => IsReversal(mid, arg)
    /\ step = "revealed" => res = arg
    /\ step = "unmangled" => IsReversal(res, arg)
    /\ (step = "obscured" /\ arg = S_hello) => mid = S_olleh
    /\ (step = "unmangled" /\ arg = S_olleh) => res = S_hello

\* C4 witness: hello was obscured to olleh and revealed again.
C4_Witness ==
    /\ step = "revealed"
    /\ arg = S_hello
    /\ mid = S_olleh
    /\ res = S_hello

\* C7, as claimed: a name is accepted only if it is non-empty, made of the allowed
\* characters, and its directory exists, the empty directory being the current one; so a
\* bare name of allowed characters is accepted, and "" and "bad/name" are rejected.
C7_ValidatorRule ==
    step = "validated" =>
        LET allowed == arg # << >> /\ \A i \in 1..Len(arg) : arg[i] \in WordChars \cup {"-", ".", " "}
            dirOk == Dirname(arg) = << >> \/ Dirname(arg) \in mid
        IN  /\ res = "success" => (allowed /\ dirOk)
            /\ (allowed /\ Dirname(arg) = << >>) => res = "success"
            /\ arg \in {S_empty, BadPath} => res = "failure"

====
